---------------------------- MODULE Spec2Model ----------------------------
(***************************************************************************)
(* Model of app_final.py: a Streamlit script that is run top to bottom on  *)
(* every page load.  It fetches the top coins from the CoinGecko API,      *)
(* shows a sidebar, reads the coin filter and renders three tabs.          *)
(*                                                                         *)
(* A pandas DataFrame is a record [columns, index, rows]; a wrapper's      *)
(* outcome is [raised, df].  Floating point percentages are fixed point    *)
(* numbers in units of 1/FRAC of a percent, NaN being a value of its own.  *)
(***************************************************************************)
EXTENDS Integers, Sequences, FiniteSets, TLC

\* ------------------------------------------------------------------ bounds
\* Number of rows the markets endpoint answers with (at most per_page).
MaxCoins == 2
\* Largest 24h trading volume of a coin.
MaxVol == 2
\* Largest number of points in an OHLC or price series body.
MaxPoints == 1

\* ------------------------------------------------------- program constants
\* get_top_coins(5): the per_page parameter of the listing request.
TopN == 5
\* Resolution of a float quotient: a fraction is kept in units of 1/FRAC.
FRAC == 1000000

\* The ids of the coins, in the order market_cap_desc lists them.
CoinIds == <<"bitcoin", "ethereum", "tether", "ripple", "solana">>

\* HTTP statuses the upstream service answers with.
StatusCodes == {200, 201, 204, 404, 429, 500}

\* The statuses RFC 9110 calls successful.
Is2xx(status) == status \in 200..299

\* Options of the day-range drop-down.
DayOptions == <<1, 7, 14, 30, 90, 180, 365>>

custom_colors == <<"#636EFA", "#EF553B", "#00CC96", "#AB63FA", "#FFA15A">>

\* Milliseconds per second: pd.to_datetime(..., unit="ms").
MsPerSec == 1000

\* The float NaN: distinct from every number the model computes (all >= 0).
NaN == -1

\* --------------------------------------------------------------- helpers
Min(a, b) == IF a < b THEN a ELSE b

Range(s) == {s[i] : i \in DOMAIN s}

IsInjective(s) == \A i, j \in DOMAIN s : s[i] = s[j] => i = j

\* All sequences without repetition over the set S.
InjSeqs(S) ==
    {s \in UNION {[1..n -> S] : n \in 0..Cardinality(S)} : IsInjective(s)}

\* All permutations of 1..n.
Perms(n) == {p \in [1..n -> 1..n] : IsInjective(p)}

RECURSIVE SumSeq(_)
SumSeq(s) == IF s = <<>> THEN 0 ELSE s[1] + SumSeq(Tail(s))

\* ------------------------------------------------------------ DataFrames
\* pd.DataFrame(): no columns, no rows.
EmptyFrame == [columns |-> <<>>, index |-> "", rows |-> <<>>]

\* DataFrame.empty: some axis has length 0.
empty(df) == Len(df.columns) = 0 \/ Len(df.rows) = 0

\* df[col]: the column as a list; requires col \in Range(df.columns).
Column(df, col) == [i \in 1..Len(df.rows) |-> df.rows[i][col]]

HasColumn(df, col) == col \in Range(df.columns)

Returned(df) == [raised |-> FALSE, df |-> df]
Raised == [raised |-> TRUE, df |-> EmptyFrame]

\* ------------------------------------------------------ response bodies
\* A body that is not the JSON the wrapper expects (not JSON at all, an
\* error object, an object without "prices").
Malformed == [wellformed |-> FALSE, rows |-> <<>>]
Json(rows) == [wellformed |-> TRUE, rows |-> rows]

\* The markets listing: the first k coins, each with its 24h volume.
MarketBodies ==
    {Malformed} \cup
    UNION {{Json([i \in 1..k |-> [id |-> CoinIds[i], total_volume |-> v[i]]]) :
                v \in [1..k -> 0..MaxVol]} : k \in 0..Min(MaxCoins, TopN)}

\* OHLC points [timestamp ms, open, high, low, close].
OhlcPoint(i) == <<90500 * i, 10 + i, 12 + i, 9 + i, 11 + i>>
OhlcBodies ==
    {Malformed} \cup {Json([i \in 1..n |-> OhlcPoint(i)]) : n \in 0..MaxPoints}

\* Price points [timestamp ms, price].
PricePoint(i) == <<90500 * i, 10 + i>>
ChartBodies ==
    {Malformed} \cup {Json([i \in 1..n |-> PricePoint(i)]) : n \in 0..MaxPoints}

\* --------------------------------------------------- Market Data Client
\* The status test of the three wrappers: response.status_code == 200.
\* Variant: every status but 404 taken for success.
IsSuccessUnless404(status) == status # 404
IsSuccess(status) == status = 200

\* pd.to_datetime(ms, unit="ms"): the instant, as whole seconds since the
\* epoch and the milliseconds within the second.
\* Variant: the number read as seconds (unit="s").
to_datetime_seconds(ms) == [sec |-> ms, msec |-> 0]
to_datetime(ms) == [sec |-> ms \div MsPerSec, msec |-> ms % MsPerSec]

get_ohlc_data(status, body) ==
    IF IsSuccess(status)
    THEN IF ~body.wellformed
         THEN Raised
         ELSE Returned([columns |-> <<"open", "high", "low", "close">>,
                        index |-> "timestamp",
                        rows |-> [i \in 1..Len(body.rows) |->
                                    [timestamp |-> to_datetime(body.rows[i][1]),
                                     open |-> body.rows[i][2],
                                     high |-> body.rows[i][3],
                                     low |-> body.rows[i][4],
                                     close |-> body.rows[i][5]]]])
    ELSE Returned(EmptyFrame)

get_top_coins(status, body) ==
    IF IsSuccess(status)
    THEN IF ~body.wellformed
         THEN Raised
         ELSE Returned([columns |-> IF body.rows = <<>> THEN <<>>
                                    ELSE <<"id", "total_volume">>,
                        index |-> "",
                        rows |-> body.rows])
    ELSE Returned(EmptyFrame)

get_market_chart(status, body) ==
    IF IsSuccess(status)
    THEN IF ~body.wellformed
         THEN Raised
         ELSE Returned([columns |-> <<"price">>,
                        index |-> "timestamp",
                        rows |-> [i \in 1..Len(body.rows) |->
                                    [timestamp |-> to_datetime(body.rows[i][1]),
                                     price |-> body.rows[i][2]]]])
    ELSE Returned(EmptyFrame)

\* The requests the wrappers send.
\* Variant: the candlestick loop asking the market_chart endpoint.
OhlcRequestToMarketChart(coin_id, d) ==
    [endpoint |-> "market_chart", coin |-> coin_id, days |-> d, per_page |-> 0]
OhlcRequest(coin_id, d) ==
    [endpoint |-> "ohlc", coin |-> coin_id, days |-> d, per_page |-> 0]
MarketsRequest(n) ==
    [endpoint |-> "markets", coin |-> "", days |-> 0, per_page |-> n]

\* ------------------------------------------------------ Series Normalizer
\* colors = {coin: custom_colors[i % len(custom_colors)] for i, coin in
\* enumerate(coin_ids)}; i counts from 0.
\* Variant: the index counted from 1.
PaletteColorFromOne(i) == custom_colors[((i + 1) % Len(custom_colors)) + 1]
PaletteColor(i) == custom_colors[(i % Len(custom_colors)) + 1]

\* A dict comprehension keeps the last value written under a key.
colors(coin_ids) ==
    [coin \in Range(coin_ids) |->
        PaletteColor((CHOOSE i \in DOMAIN coin_ids :
                        /\ coin_ids[i] = coin
                        /\ \A j \in DOMAIN coin_ids :
                              coin_ids[j] = coin => j <= i) - 1)]

\* df_top5[df_top5["id"].isin(coin_choice)]: the rows kept, in the frame's order.
IsinFilter(df, choice) ==
    [df EXCEPT !.rows = SelectSeq(df.rows, LAMBDA r : r.id \in Range(choice))]

\* (volume / total) * 100 in floats: the quotient rounded to the nearest
\* 1/FRAC, then scaled.  0/0 is NaN; volumes are never negative, so x/0 with
\* x # 0 does not arise.
\* Variant: the divisor off by one.
VolumeShareOffByOne(v, total) ==
    IF total = 0 THEN NaN ELSE ((2 * v * FRAC + (total + 1)) \div (2 * (total + 1))) * 100
VolumeShare(v, total) ==
    IF total = 0 THEN NaN ELSE ((2 * v * FRAC + total) \div (2 * total)) * 100

\* f"{x:.2f}": the percentage in hundredths, rounded; "nan" for NaN.
Format2f(x) ==
    IF x = NaN THEN NaN ELSE (2 * x + FRAC \div 100) \div (2 * (FRAC \div 100))

\* Series.sum(): NaN entries are skipped.
SeriesSum(s) == SumSeq([i \in DOMAIN s |-> IF s[i] = NaN THEN 0 ELSE s[i]])

\* Float comparison a >= b: false as soon as one side is NaN.
Geq(a, b) == a # NaN /\ b # NaN /\ a >= b

\* sort_values(by="percent", ascending=False): the row orders the sort may
\* produce.  Rows with a number come first, largest first, ties in any order
\* (the default quicksort is not stable); NaN rows come last, in their
\* original order.
\* Variant: ascending=True.
SortOrdersAscending(pcts) ==
    {p \in Perms(Len(pcts)) :
        \A a, b \in 1..Len(pcts) : a < b =>
            IF pcts[p[a]] = NaN /\ pcts[p[b]] = NaN THEN p[a] < p[b]
            ELSE pcts[p[a]] = NaN \/ pcts[p[a]] <= pcts[p[b]]}
SortOrders(pcts) ==
    {p \in Perms(Len(pcts)) :
        \A a, b \in 1..Len(pcts) : a < b =>
            IF pcts[p[a]] = NaN /\ pcts[p[b]] = NaN THEN p[a] < p[b]
            ELSE pcts[p[b]] = NaN \/ Geq(pcts[p[a]], pcts[p[b]])}

\* marker_color of the bar chart.
\* Variant: the two colours exchanged.
BarColorSwapped(c, choice) == IF c \in Range(choice) THEN "lightgray" ELSE "steelblue"
BarColor(c, choice) == IF c \in Range(choice) THEN "steelblue" ELSE "lightgray"

\* ------------------------------------------------------------------ state
VARIABLES
    pc,           \* position of the script run
    df_top5,      \* the summary table
    coin_choice,  \* the coins the multiselect returned, in selection order
    days,         \* the day range the selectbox returned (0: not asked)
    loop,         \* index into coin_choice of the candlestick loop
    requests,     \* every HTTP request sent in this run, in order
    inflight,     \* indices of the requests sent and not yet answered
    fetched,      \* per OHLC fetch that returned: [coin, empty]
    sidebar,      \* what the sidebar shows
    tab1,         \* what the Price Overview tab shows
    tab2,         \* what the Market Comparison tab shows
    tab3,         \* what the Volume Analysis tab shows
    error,        \* the exception that ended the run: [type, line]
    call          \* the last direct call of a wrapper: [fn, status, body, result]

vars ==
    <<pc, df_top5, coin_choice, days, loop, requests, inflight, fetched,
      sidebar, tab1, tab2, tab3, error, call>>

shared == <<df_top5, coin_choice>>
display == <<sidebar, tab1, tab2, tab3>>

NoError == [type |-> "", line |-> 0]
Exception(type, line) == [type |-> type, line |-> line]

NoCall == [fn |-> "", status |-> 0, body |-> Malformed, result |-> Raised]

Fresh ==
    /\ df_top5 = EmptyFrame
    /\ coin_choice = <<>>
    /\ days = 0
    /\ loop = 0
    /\ requests = <<>>
    /\ inflight = {}
    /\ fetched = <<>>
    /\ sidebar = <<>>
    /\ tab1 = <<>>
    /\ tab2 = <<>>
    /\ tab3 = <<>>
    /\ error = NoError
    /\ call = NoCall

Init == pc = "start" /\ Fresh

\* ---------------------------------------------------------- the script run
\* Line 88, get_top_coins(5) up to requests.get: the listing request goes out.
TopCoinsSend ==
    /\ pc = "start"
    /\ requests' = Append(requests, MarketsRequest(TopN))
    /\ inflight' = inflight \cup {Len(requests) + 1}
    /\ pc' = "top_wait"
    /\ UNCHANGED <<shared, days, loop, fetched, display, error, call>>

\* Line 88, the rest of get_top_coins: the response arrives.
TopCoinsReturn ==
    /\ pc = "top_wait"
    /\ \E status \in StatusCodes, body \in MarketBodies :
         LET r == get_top_coins(status, body) IN
         /\ df_top5' = r.df
         /\ pc' = IF r.raised THEN "raised" ELSE "sidebar"
         /\ error' = IF r.raised THEN Exception("ValueError", 64) ELSE error
    /\ inflight' = inflight \ {Len(requests)}
    /\ UNCHANGED <<coin_choice, days, loop, requests, fetched, display, call>>

\* Lines 89-98: one metric per coin, when the summary is not empty.
Sidebar ==
    /\ pc = "sidebar"
    /\ sidebar' = IF ~empty(df_top5)
                  THEN <<[kind |-> "header", of |-> ""]>> \o
                       [k \in 1..Len(df_top5.rows) |->
                          [kind |-> "metric", of |-> df_top5.rows[k].id]]
                  ELSE <<>>
    /\ pc' = "filter"
    /\ UNCHANGED <<shared, days, loop, requests, inflight, fetched,
                   tab1, tab2, tab3, error, call>>

\* Lines 101-107: df_top5["id"] is a KeyError on a frame without that column
\* and tolist()[0] an IndexError on an empty list; otherwise the multiselect
\* returns the user's selection among the options.
CoinFilter ==
    /\ pc = "filter"
    /\ IF ~HasColumn(df_top5, "id")
       THEN /\ pc' = "raised"
            /\ error' = Exception("KeyError", 105)
            /\ UNCHANGED coin_choice
       ELSE IF Len(Column(df_top5, "id")) = 0
       THEN /\ pc' = "raised"
            /\ error' = Exception("IndexError", 106)
            /\ UNCHANGED coin_choice
       ELSE /\ coin_choice' \in InjSeqs(Range(Column(df_top5, "id")))
            /\ pc' = "tab1"
            /\ UNCHANGED error
    /\ UNCHANGED <<df_top5, days, loop, requests, inflight, fetched, display, call>>

\* Lines 113-118 and 141-143: the day range is asked for when a coin is
\* selected, the message is shown when none is.
Tab1Begin ==
    /\ pc = "tab1"
    /\ IF coin_choice # <<>>
       THEN /\ days' \in Range(DayOptions)
            /\ loop' = 1
            /\ pc' = "tab1_loop"
            /\ UNCHANGED tab1
       ELSE /\ tab1' = <<[kind |-> "info", of |-> ""]>>
            /\ pc' = "tab2"
            /\ UNCHANGED <<days, loop>>
    /\ UNCHANGED <<shared, requests, inflight, fetched, sidebar, tab2, tab3,
                   error, call>>

\* Line 122, get_ohlc_data(c, days) up to requests.get.
OhlcSend ==
    /\ pc = "tab1_loop"
    /\ requests' = Append(requests, OhlcRequest(coin_choice[loop], days))
    /\ inflight' = inflight \cup {Len(requests) + 1}
    /\ pc' = "ohlc_wait"
    /\ UNCHANGED <<shared, days, loop, fetched, display, error, call>>

\* Lines 122-140: the response arrives; a non-empty frame gets its
\* sub-header and its chart; then the next coin, or the next tab.
\* Variant: the chart drawn without the df_ohlc.empty test.
CandlestickStepUnchecked(c, df_ohlc) ==
    tab1 \o <<[kind |-> "subheader", of |-> c],
              [kind |-> "candlestick", of |-> c]>>
CandlestickStep(c, df_ohlc) ==
    IF ~empty(df_ohlc)
    THEN tab1 \o <<[kind |-> "subheader", of |-> c],
                   [kind |-> "candlestick", of |-> c]>>
    ELSE tab1

OhlcReturn ==
    /\ pc = "ohlc_wait"
    /\ \E status \in StatusCodes, body \in OhlcBodies :
         LET r == get_ohlc_data(status, body) IN
         IF r.raised
         THEN /\ pc' = "raised"
              /\ error' = Exception("ValueError", 47)
              /\ UNCHANGED <<tab1, fetched, loop>>
         ELSE /\ UNCHANGED error
              /\ fetched' = Append(fetched, [coin |-> coin_choice[loop],
                                             empty |-> empty(r.df)])
              /\ tab1' = CandlestickStep(coin_choice[loop], r.df)
              /\ loop' = loop + 1
              /\ pc' = IF loop = Len(coin_choice) THEN "tab2" ELSE "tab1_loop"
    /\ inflight' = inflight \ {Len(requests)}
    /\ UNCHANGED <<shared, days, requests, sidebar, tab2, tab3, call>>

\* Lines 146-199: the bubble chart of the selected rows, or the message.
BubbleChart(df_bubbles) ==
    LET coin_ids == Column(df_bubbles, "id") IN
    [kind |-> "scatter",
     text |-> coin_ids,
     size |-> Column(df_bubbles, "total_volume"),
     color |-> [k \in DOMAIN coin_ids |-> colors(coin_ids)[coin_ids[k]]]]

\* Variant: the filter applied to df_top5 itself, without the copy.
Tab2InPlace ==
    /\ pc = "tab2"
    /\ df_top5' = IsinFilter(df_top5, coin_choice)
    /\ tab2' = IF ~empty(df_top5')
               THEN <<BubbleChart(df_top5')>>
               ELSE <<[kind |-> "info", of |-> ""]>>
    /\ pc' = "tab3"
    /\ UNCHANGED <<coin_choice, days, loop, requests, inflight, fetched,
                   sidebar, tab1, tab3, error, call>>
Tab2 ==
    /\ pc = "tab2"
    /\ LET df_bubbles == IsinFilter(df_top5, coin_choice) IN
       tab2' = IF ~empty(df_bubbles)
               THEN <<BubbleChart(df_bubbles)>>
               ELSE <<[kind |-> "info", of |-> ""]>>
    /\ pc' = "tab3"
    /\ UNCHANGED <<shared, days, loop, requests, inflight, fetched,
                   sidebar, tab1, tab3, error, call>>

\* Lines 204-205: the percent column is added and the frame re-sorted.
WithPercent(df) ==
    LET total == SeriesSum(Column(df, "total_volume")) IN
    [df EXCEPT !.columns = IF "percent" \in Range(@) THEN @
                           ELSE Append(@, "percent"),
               !.rows = [k \in DOMAIN @ |->
                           [id |-> @[k].id,
                            total_volume |-> @[k].total_volume,
                            percent |-> VolumeShare(@[k].total_volume, total)]]]

Reorder(df, p) == [df EXCEPT !.rows = [k \in DOMAIN @ |-> @[p[k]]]]

\* The frames lines 204-205 may leave in df_top5.
SortedFrames(df) ==
    {Reorder(WithPercent(df), p) :
        p \in SortOrders(Column(WithPercent(df), "percent"))}

\* Lines 212-219: one bar per row of the sorted frame.
BarChart(df, choice) ==
    [kind |-> "bar",
     x |-> Column(df, "id"),
     y |-> Column(df, "percent"),
     text |-> [k \in 1..Len(df.rows) |-> Format2f(df.rows[k].percent)],
     marker_color |-> [k \in 1..Len(df.rows) |-> BarColor(df.rows[k].id, choice)]]

\* Lines 202-228.
Tab3 ==
    /\ pc = "tab3"
    /\ IF ~HasColumn(df_top5, "total_volume")
       THEN /\ pc' = "raised"
            /\ error' = Exception("KeyError", 204)
            /\ UNCHANGED <<df_top5, tab3>>
       ELSE /\ df_top5' \in SortedFrames(df_top5)
            /\ tab3' = IF ~empty(df_top5') THEN <<BarChart(df_top5', coin_choice)>>
                       ELSE <<>>
            /\ pc' = "done"
            /\ UNCHANGED error
    /\ UNCHANGED <<coin_choice, days, loop, requests, inflight, fetched,
                   sidebar, tab1, tab2, call>>

\* A user interaction or a reload runs the script again from the top.
Rerun ==
    /\ pc \in {"done", "raised"}
    /\ pc' = "start"
    /\ df_top5' = EmptyFrame
    /\ coin_choice' = <<>>
    /\ days' = 0
    /\ loop' = 0
    /\ requests' = <<>>
    /\ inflight' = {}
    /\ fetched' = <<>>
    /\ sidebar' = <<>>
    /\ tab1' = <<>>
    /\ tab2' = <<>>
    /\ tab3' = <<>>
    /\ error' = NoError
    /\ call' = NoCall

Next ==
    \/ TopCoinsSend
    \/ TopCoinsReturn
    \/ Sidebar
    \/ CoinFilter
    \/ Tab1Begin
    \/ OhlcSend
    \/ OhlcReturn
    \/ Tab2
    \/ Tab3
    \/ Rerun

Spec == Init /\ [][Next]_vars

\* ------------------------------------------- the wrappers called directly
ClientInit == pc = "client" /\ Fresh

CallTopCoins ==
    /\ pc = "client"
    /\ \E status \in StatusCodes, body \in MarketBodies :
         call' = [fn |-> "get_top_coins", status |-> status, body |-> body,
                  result |-> get_top_coins(status, body)]
    /\ UNCHANGED <<pc, shared, days, loop, requests, inflight, fetched, display, error>>

CallOhlcData ==
    /\ pc = "client"
    /\ \E status \in StatusCodes, body \in OhlcBodies :
         call' = [fn |-> "get_ohlc_data", status |-> status, body |-> body,
                  result |-> get_ohlc_data(status, body)]
    /\ UNCHANGED <<pc, shared, days, loop, requests, inflight, fetched, display, error>>

CallMarketChart ==
    /\ pc = "client"
    /\ \E status \in StatusCodes, body \in ChartBodies :
         call' = [fn |-> "get_market_chart", status |-> status, body |-> body,
                  result |-> get_market_chart(status, body)]
    /\ UNCHANGED <<pc, shared, days, loop, requests, inflight, fetched, display, error>>

ClientNext ==
    \/ CallTopCoins
    \/ CallOhlcData
    \/ CallMarketChart

ClientSpec == ClientInit /\ [][ClientNext]_vars

\* ------------------------------------------------------------ properties
Ids(df) == [k \in 1..Len(df.rows) |-> df.rows[k].id]

\* The sum of a list of floats: NaN as soon as one of them is NaN.
FloatSum(s) == IF NaN \in Range(s) THEN NaN ELSE SumSeq(s)

\* |x - target| <= tol in floats: false for NaN.
Within(x, target, tol) == x # NaN /\ x - target <= tol /\ target - x <= tol

\* Half a unit of the quotient, scaled by 100, per share.
Tolerance(n) == 50 * n

AfterTabs == pc = "done"

\* The summary fetch has returned, and returned an empty frame.
SummaryEmpty ==
    /\ pc \notin {"start", "top_wait", "client"}
    /\ error.line # 64
    /\ empty(df_top5)

\* C1: for each of the three wrappers, a response whose status is not 2xx
\* yields the empty frame, and the wrapper does not raise, whatever the body.
C1_NonSuccessIsEmpty ==
    (call.fn # "" /\ ~Is2xx(call.status)) =>
        (~call.result.raised /\ call.result.df = EmptyFrame)

C1_Witness ==
    /\ call.fn = "get_market_chart"
    /\ call.status = 500
    /\ ~call.body.wellformed
    /\ call.result = Returned(EmptyFrame)

\* C2: when the summary fetch returns an empty frame the run still reaches
\* its end without an exception.
C2_EmptySummaryCompletes == SummaryEmpty => pc # "raised"

\* C3: with a non-empty summary and nothing selected, the candlestick and
\* the bubble tab show only the message, and the bar tab shows one bar per
\* coin of the summary, every bar lightgray.
C3_EmptySelection ==
    (AfterTabs /\ ~empty(df_top5) /\ coin_choice = <<>>) =>
        /\ tab1 = <<[kind |-> "info", of |-> ""]>>
        /\ tab2 = <<[kind |-> "info", of |-> ""]>>
        /\ Len(tab3) = 1
        /\ tab3[1].kind = "bar"
        /\ Len(tab3[1].x) = Len(df_top5.rows)
        /\ Range(tab3[1].x) = {sidebar[k].of : k \in 2..Len(sidebar)}
        /\ Len(sidebar) = Len(df_top5.rows) + 1
        /\ \A k \in DOMAIN tab3[1].marker_color :
              tab3[1].marker_color[k] = "lightgray"
        /\ requests = <<MarketsRequest(TopN)>>

C3_Witness ==
    /\ AfterTabs
    /\ coin_choice = <<>>
    /\ Len(df_top5.rows) >= 2
    /\ tab3[1].marker_color[2] = "lightgray"

\* C4 as stated: the shares of the bar view sum to 100 within the rounding
\* tolerance for every non-empty summary.
C4_SharesSumTo100 ==
    (AfterTabs /\ ~empty(df_top5)) =>
        Within(FloatSum(tab3[1].y), 100 * FRAC, Tolerance(Len(tab3[1].y)))

\* C4 amended: the shares of the bar view sum to 100 within the rounding
\* tolerance whenever the summed volume is not zero; when every volume is
\* zero each share is NaN.
C4_SharesSumTo100IfVolume ==
    (AfterTabs /\ ~empty(df_top5)) =>
        IF SumSeq(Column(df_top5, "total_volume")) # 0
        THEN Within(FloatSum(tab3[1].y), 100 * FRAC, Tolerance(Len(tab3[1].y)))
        ELSE \A k \in DOMAIN tab3[1].y : tab3[1].y[k] = NaN

C4_Witness ==
    /\ AfterTabs
    /\ Len(df_top5.rows) >= 2
    /\ \A k \in DOMAIN df_top5.rows : df_top5.rows[k].total_volume > 0
    /\ df_top5.rows[1].total_volume # df_top5.rows[2].total_volume
    /\ FloatSum(tab3[1].y) # NaN

\* The bars are the summary's coins, one bar each.
BarsAreSummary ==
    /\ Len(tab3) = 1
    /\ tab3[1].x = Ids(df_top5)
    /\ IsInjective(tab3[1].x)
    /\ Range(tab3[1].x) = {sidebar[k].of : k \in 2..Len(sidebar)}
    /\ \A k \in DOMAIN tab3[1].y :
          tab3[1].y[k] = VolumeShare(df_top5.rows[k].total_volume,
                                     SumSeq(Column(df_top5, "total_volume")))

Descending(y) == \A k \in 1..(Len(y) - 1) : Geq(y[k], y[k + 1])

\* The summary of the example, in an order the API might list it in.
ExampleFrame ==
    [columns |-> <<"id", "total_volume">>,
     index |-> "",
     rows |-> [k \in 1..5 |->
                 [id |-> CoinIds[k],
                  total_volume |-> <<300, 100, 500, 200, 400>>[k]]]]

ExampleTexts == {BarChart(f, <<>>).text : f \in SortedFrames(ExampleFrame)}

\* C5 as stated: the bars are the whole summary, and each bar's share is >=
\* the share of the bar after it.
C5_BarsDescending ==
    (AfterTabs /\ ~empty(df_top5)) => (BarsAreSummary /\ Descending(tab3[1].y))

\* C5 amended: the bars are the whole summary, and each bar's share is >= the
\* share of the bar after it whenever the summed volume is not zero (with
\* every volume zero the shares are NaN and compare with nothing); volumes
\* 100..500 give 33.33, 26.67, 20.00, 13.33, 6.67 in that order.
C5_BarsDescendingIfVolume ==
    /\ (AfterTabs /\ ~empty(df_top5)) =>
          /\ BarsAreSummary
          /\ SumSeq(Column(df_top5, "total_volume")) # 0 => Descending(tab3[1].y)
    /\ ExampleTexts = {<<3333, 2667, 2000, 1333, 667>>}

C5_Witness ==
    /\ AfterTabs
    /\ Len(tab3[1].y) >= 2
    /\ tab3[1].x[1] = CoinIds[2]
    /\ tab3[1].y[1] > tab3[1].y[2]
    /\ tab3[1].y[2] > 0

\* What a wrapper's table must hold for a well-formed body.
TableMatches(fn, body, df) ==
    /\ Len(df.rows) = Len(body.rows)
    /\ fn = "get_top_coins" =>
          /\ df.index = ""
          /\ df.rows = body.rows
          /\ body.rows # <<>> => df.columns = <<"id", "total_volume">>
    /\ fn = "get_ohlc_data" =>
          /\ df.index = "timestamp"
          /\ df.columns = <<"open", "high", "low", "close">>
          /\ \A k \in DOMAIN df.rows :
                /\ df.rows[k].timestamp.sec * MsPerSec + df.rows[k].timestamp.msec
                      = body.rows[k][1]
                /\ df.rows[k].timestamp.msec \in 0..(MsPerSec - 1)
                /\ <<df.rows[k].open, df.rows[k].high, df.rows[k].low,
                     df.rows[k].close>> = SubSeq(body.rows[k], 2, 5)
    /\ fn = "get_market_chart" =>
          /\ df.index = "timestamp"
          /\ df.columns = <<"price">>
          /\ \A k \in DOMAIN df.rows :
                /\ df.rows[k].timestamp.sec * MsPerSec + df.rows[k].timestamp.msec
                      = body.rows[k][1]
                /\ df.rows[k].timestamp.msec \in 0..(MsPerSec - 1)
                /\ df.rows[k].price = body.rows[k][2]

\* C6 as stated: on every 2xx status each wrapper returns the table built
\* from the body, and a body with entries never gives the empty failure
\* result.
C6_Any2xxReturnsTable ==
    (call.fn # "" /\ Is2xx(call.status) /\ call.body.wellformed) =>
        /\ ~call.result.raised
        /\ TableMatches(call.fn, call.body, call.result.df)
        /\ call.body.rows # <<>> => call.result.df # EmptyFrame

\* C6 amended: on status 200, the one status the wrappers take for success,
\* and a well-formed body, each wrapper returns the table built from the
\* body, with a row per entry; the table is the empty failure result only for
\* a markets listing without entries.  Every other status, the other 2xx
\* statuses included, yields the empty failure result.
C6_Status200ReturnsTable ==
    call.fn # "" =>
        /\ (call.status = 200 /\ call.body.wellformed) =>
              /\ ~call.result.raised
              /\ TableMatches(call.fn, call.body, call.result.df)
              /\ call.body.rows # <<>> => ~empty(call.result.df)
              /\ call.result.df = EmptyFrame =>
                    (call.fn = "get_top_coins" /\ call.body.rows = <<>>)
        /\ call.status # 200 => call.result = Returned(EmptyFrame)

C6_Witness ==
    /\ call.fn = "get_ohlc_data"
    /\ call.status = 200
    /\ call.body.wellformed
    /\ Len(call.result.df.rows) >= 1
    /\ call.result.df.rows[1].timestamp.msec # 0

\* The coins of the candlestick charts, and of the sub-headers, in order.
Shown(kind) ==
    LET sel == SelectSeq(tab1, LAMBDA e : e.kind = kind)
    IN  [k \in DOMAIN sel |-> sel[k].of]

NonEmptyFetches ==
    LET sel == SelectSeq(fetched, LAMBDA f : ~f.empty)
    IN  [k \in DOMAIN sel |-> sel[k].coin]

\* C7: the candlestick tab holds one chart, with its sub-header, for exactly
\* the selected coins whose fetch returned a non-empty frame, in selection
\* order; an empty fetch raises nothing and the loop goes on to the coins
\* after it.
C7_EmptyFetchOmitsOnlyItsChart ==
    /\ coin_choice # <<>> =>
          /\ Shown("candlestick") = NonEmptyFetches
          /\ Shown("subheader") = NonEmptyFetches
          /\ Len(tab1) = 2 * Len(NonEmptyFetches)
    /\ Len(fetched) <= Len(coin_choice)
    /\ \A k \in DOMAIN fetched : fetched[k].coin = coin_choice[k]
    /\ pc \in {"tab2", "tab3", "done"} => Len(fetched) = Len(coin_choice)
    /\ pc = "raised" /\ error.line = 47 => Len(fetched) < Len(coin_choice)
    /\ pc = "raised" => error.line \in {47, 64, 105}

C7_Witness ==
    /\ AfterTabs
    /\ Len(coin_choice) = 2
    /\ fetched[1].empty
    /\ ~fetched[2].empty
    /\ Shown("candlestick") = <<coin_choice[2]>>

\* C8: the i-th selected summary row (from 0) is drawn in palette[i mod 5],
\* and the colours of at most 5 coins are pairwise distinct.
C8_PaletteByIndex ==
    \A e \in Range(tab2) : e.kind = "scatter" =>
        /\ Len(e.color) = Len(e.text)
        /\ Range(e.text) = Range(coin_choice)
        /\ \A k \in DOMAIN e.color :
              e.color[k] = custom_colors[((k - 1) % 5) + 1]
        /\ Len(e.color) <= 5 => IsInjective(e.color)

C8_Witness ==
    /\ Len(tab2) = 1
    /\ tab2[1].kind = "scatter"
    /\ Len(tab2[1].color) >= 2
    /\ coin_choice[1] = tab2[1].text[2]

\* The requests a run with the selection coin_choice sends.
ExpectedRequests ==
    <<MarketsRequest(TopN)>> \o
    [k \in DOMAIN coin_choice |->
        [endpoint |-> "ohlc", coin |-> coin_choice[k], days |-> days,
         per_page |-> 0]]

IsPrefix(s, t) == Len(s) <= Len(t) /\ s = SubSeq(t, 1, Len(s))

\* C9: a run sends the listing request first and then one OHLC request per
\* selected coin, in selection order, each after the one before it was
\* answered; no request is sent twice, none is a market-chart request, and
\* at most one request is in flight.
C9_SequentialRequests ==
    /\ pc \in {"tab2", "tab3", "done"} => requests = ExpectedRequests
    /\ pc \in {"tab1_loop", "ohlc_wait"} => IsPrefix(requests, ExpectedRequests)
    /\ pc \in {"tab1_loop", "ohlc_wait"} =>
          Len(requests) = loop + (IF pc = "ohlc_wait" THEN 1 ELSE 0)
    /\ pc \notin {"start", "client"} =>
          (requests # <<>> /\ requests[1] = MarketsRequest(TopN))
    /\ \A k \in DOMAIN requests : requests[k].endpoint # "market_chart"
    /\ Cardinality(inflight) <= 1
    /\ inflight \subseteq {Len(requests)}
    /\ pc \notin {"start", "top_wait", "client"} =>
          Len(requests) - 1 = Len(fetched) + Cardinality(inflight)
                                + (IF error.line = 47 THEN 1 ELSE 0)

C9_Witness ==
    /\ AfterTabs
    /\ Len(requests) = 3
    /\ fetched[1].empty
    /\ requests[2].coin = CoinIds[2]
    /\ requests[3].coin = CoinIds[1]

InTab1 == pc \in {"tab1", "tab1_loop", "ohlc_wait"}
InTab2 == pc = "tab2"
InTab3 == pc = "tab3"

\* C10 as stated: while a tab is rendered the request log, the summary
\* table and the selection do not change.
C10_RenderersArePure ==
    [][(InTab1 \/ InTab2 \/ InTab3) =>
          (requests' = requests /\ df_top5' = df_top5 /\ coin_choice' = coin_choice)]_vars

\* C10 amended: no tab changes the selection; the bubble tab sends nothing
\* and leaves the summary table alone; the candlestick tab leaves the summary
\* table alone but sends the OHLC requests, one at a time; the bar tab sends
\* nothing but replaces the summary table by one with the percent column,
\* re-sorted.
C10_RenderersEffects ==
    [][/\ (InTab1 \/ InTab2 \/ InTab3) => coin_choice' = coin_choice
       /\ InTab2 => (requests' = requests /\ df_top5' = df_top5)
       /\ InTab1 => /\ df_top5' = df_top5
                    /\ IsPrefix(requests, requests')
                    /\ Len(requests') <= Len(requests) + 1
       /\ InTab3 => /\ requests' = requests
                    /\ pc' = "done" =>
                          /\ "percent" \in Range(df_top5'.columns)
                          /\ "percent" \notin Range(df_top5.columns)
                          /\ Range(Ids(df_top5')) = Range(Ids(df_top5))
                          /\ Len(df_top5'.rows) = Len(df_top5.rows)]_vars

C10_Witness ==
    /\ AfterTabs
    /\ Len(requests) >= 2
    /\ Len(df_top5.rows) >= 2
    /\ df_top5.rows[1].id = CoinIds[2]
    /\ "percent" \in Range(df_top5.columns)

=============================================================================
